---- MODULE Spec2Model ----
(***************************************************************************)
(* Playback queue and state synchronisation core of Spotifly               *)
(* (src/rust/src/lib.rs): the process-wide QUEUE / CURRENT_INDEX /         *)
(* IS_PLAYING / POSITION_MS / POSITION_TIMESTAMP_MS / PLAYER / SESSION /   *)
(* MIXER / PLAYER_EVENT_TX statics (SPIRC is written by init only and read *)
(* by no command, so it carries no state),                                 *)
(* the extern "C" host commands that run on host threads, and the         *)
(* event listener task spawned by init_player_async.                       *)
(*                                                                         *)
(* Granularity: one action per stretch of a handler that touches shared    *)
(* state atomically (one QUEUE critical section, one atomic store, one     *)
(* PLAYER critical section together with the engine command it guards).    *)
(* A queue index i of the code is position i + 1 of the TLA+ sequence.     *)
(***************************************************************************)
EXTENDS Integers, Sequences, FiniteSets, Bags, TLC

\* ------------------------------------------------------------------ bounds
\* Longest queue the host builds with appendToQueue / insertNext.
MaxQueue == 4
\* The same while host threads and the event listener interleave.
MaxRaceQueue == 3
\* The same while the clock and the event payloads take all their values.
MaxTrackerQueue == 2
\* How often the host tears the session down.
MaxTeardowns == 2
\* Path segments of the inputs given to url_to_uri.
MaxSegments == 3

\* ------------------------------------------------------------ the universe
HostThreads == {"h1", "h2"}
SerialThread == "h1"
NONE == "none"
\* Track identifiers the Metadata Resolver knows ("spotify:track:...").
Tracks == {"t1", "t2"}
\* An episode inside a playlist (a SpotifyUri that is not a Track).
Episode == "ep"
\* Identifiers handed to play(): tracks, the three collection kinds, a kind
\* with no queue semantics, and a string SpotifyUri::from_uri rejects.
PlayInputs == Tracks \cup {"album", "playlist", "artist", "user", "bad"}
\* What a collection may hold according to the Metadata Resolver.
Contents == {<< >>, <<"t2", "ep", "t1">>}
\* Identifiers handed to appendToQueue() / insertNext().
AddInputs == Tracks \cup {"album", "bad"}
\* access_token arguments of initialize(): two credentials, and a null
\* pointer or a string that is not UTF-8.
NoToken == "null"
AccessTokens == {"tokA", "tokB", NoToken}
\* Arguments of setVolume(): the ends of the u16 range.
Volumes == {0, 65535}
\* Lists handed to playMany().
ManyInputs == {<< >>, <<"t1">>, <<"t2", "t1">>, <<"t1", "user">>, <<"t2", "bad">>}

\* Positions and clock readings are counted in ticks of 5 ms, the largest unit
\* that divides both the 5000 ms interpolation cap and u32::MAX =
\* 4294967295 ms, so that u32 arithmetic keeps its width within TLC's integers.
Ms(x) == x \div 5
\* Readings of SystemTime::now() since the UNIX epoch: a first reading and
\* readings 2 s and 10 s after it.
ClockReadings == {Ms(1000), Ms(3000), Ms(11000)}
\* position_ms payloads of the engine's events, and arguments of seek().
EventPositions == {0, Ms(1000)}

OK == 0
ERR == -1
\* BITRATE_SETTING starts at 1 (160 kbps); spotifly_set_bitrate clamps to 2.
DefaultBitrate == 1
MaxBitrateSetting == 2
\* Arguments of setBitrate(): a u8 within and beyond the three levels.
BitrateInputs == {0, 1, 3}
\* The Mutex statics (lib.rs 31-36, 38) and the threads that take them: the
\* host threads and the event listener task.
Locks == {"QUEUE", "PLAYER", "SESSION", "MIXER", "SPIRC", "PLAYER_EVENT_TX"}
LockThreads == HostThreads \cup {"listener"}
\* The PlayerConfig of no player: PLAYER is None.
NoConfig == [bitrate |-> 0, gapless |-> FALSE]
\* elapsed_since_update.min(5000)
InterpolationCapMs == Ms(5000)
\* u32::MAX = 4294967295 ms in ticks, where saturating_add stops.
U32Max == 858993459

Min(a, b) == IF a < b THEN a ELSE b

VARIABLES
  queue,          \* QUEUE: Vec<QueueItem>, an item is identified by its uri
  current_index,  \* CURRENT_INDEX
  is_playing,     \* IS_PLAYING
  position_ms,    \* POSITION_MS
  position_timestamp_ms,  \* POSITION_TIMESTAMP_MS, 0 until the first update
  player,         \* PLAYER is Some
  session,        \* SESSION is Some
  mixer,          \* MIXER is Some
  event_tx,       \* PLAYER_EVENT_TX is Some
  loops,          \* event listener tasks spawned and running
  cancelled,      \* how many of them have rx.recv() ready: the sender of their
                  \* stop channel was dropped
  engine,         \* track of the last load(.., true, 0) sent to the Streaming Engine
  pc,             \* where each host thread stands inside its command
  lcl,            \* the command's locals (current_idx, the cloned track, queue_items)
  loop,           \* the event listener task: position and locals
  crashed,        \* a host command panicked inside an extern "C" fn
  mode,           \* calling discipline of the environment:
                  \* "concurrent" | "serial" | "tracker" | "lifecycle"
  teardowns,      \* lifecycle mode: how often the host has called teardown
  bitrate_setting,  \* BITRATE_SETTING
  gapless_setting,  \* GAPLESS_SETTING
  player_config,  \* the PlayerConfig the player stored in PLAYER was built with
  holder,         \* locking mode: who holds each Mutex, NONE for nobody
  script,         \* locking mode: what each thread has left to do of its call
  call            \* the command or event being observed while calls do not overlap

tracker == <<position_ms, position_timestamp_ms>>
settings == <<bitrate_setting, gapless_setting>>
lockVars == <<holder, script>>
progVars == <<queue, current_index, is_playing, tracker, player, session, mixer,
              event_tx, loops, cancelled, engine>>
vars == <<queue, current_index, is_playing, tracker, player, session, mixer,
          event_tx, loops, cancelled, engine, pc, lcl, loop, crashed, mode,
          teardowns, settings, player_config, lockVars, call>>

\* ------------------------------------------------------------- collaborators
\* parse_spotify_uri followed by the match on the SpotifyUri variant.
UriKind(u) ==
  IF u \in Tracks THEN "track"
  ELSE IF u \in {"album", "playlist", "artist"} THEN u
  ELSE IF u = Episode THEN "episode"
  ELSE IF u = "user" THEN "other"
  ELSE "invalid"

parse_spotify_uri(u) == UriKind(u) # "invalid"

\* load_album / load_playlist / load_artist: the tracks of `content` whose
\* Track::get succeeded (`ok`), in order; a playlist skips non-track entries,
\* albums and artists hold tracks only.
load_collection(content, ok) ==
  SelectSeq(content, LAMBDA u : u \in Tracks /\ u \in ok)

\* What spotifly_play_track's resolution can yield for `u`: the queue_items
\* to commit, or << >> for every Err (parse error, unsupported kind, failed
\* Track::get / Album::get / Playlist::get / Artist::get, no tracks).
resolve_play(u) ==
  IF UriKind(u) = "track" THEN {<< >>, <<u>>}
  ELSE IF UriKind(u) \in {"album", "playlist", "artist"}
    THEN {<< >>} \cup {load_collection(c, ok) : c \in Contents, ok \in SUBSET Tracks}
  ELSE {<< >>}

\* What spotifly_play_tracks' loop over `uris` can yield: TRUE when every uri
\* parsed, was a track and resolved; FALSE for the first `?` / Err taken.
resolve_tracks(uris) ==
  {\A k \in 1..Len(uris) : UriKind(uris[k]) = "track" /\ uris[k] \in ok :
     ok \in SUBSET Tracks}

\* ------------------------------------------------------- position tracking
\* update_position(position_ms), with `now` the reading current_timestamp_ms()
\* returns inside it.
update_position(p, now) ==
  /\ position_ms' = p
  /\ position_timestamp_ms' = now

\* u64::saturating_sub and u32::saturating_add.
saturating_sub(a, b) == IF a >= b THEN a - b ELSE 0
saturating_add(a, b) == Min(a + b, U32Max)

\* Mutant: the elapsed time is added without the 5000 ms cap.
get_position_ms_Uncapped(now) ==
  IF position_timestamp_ms = 0 THEN 0
  ELSE IF is_playing
    THEN saturating_add(position_ms, saturating_sub(now, position_timestamp_ms))
    ELSE position_ms

\* spotifly_get_position_ms, with `now` the reading of the clock it takes.
get_position_ms(now) ==
  IF position_timestamp_ms = 0 THEN 0
  ELSE IF is_playing
    THEN saturating_add(position_ms,
           Min(saturating_sub(now, position_timestamp_ms), InterpolationCapMs))
    ELSE position_ms

\* spotifly_is_playing
spotifly_is_playing == IF is_playing THEN 1 ELSE 0

\* --------------------------------------------------------------- bookkeeping
NoLocals == [idx |-> 0, trk |-> NONE, items |-> << >>]

Snapshot == [queue |-> queue, current_index |-> current_index,
             is_playing |-> is_playing, engine |-> engine,
             position_ms |-> position_ms,
             position_timestamp_ms |-> position_timestamp_ms,
             player |-> player, session |-> session, mixer |-> mixer,
             event_tx |-> event_tx, loops |-> loops, cancelled |-> cancelled,
             bitrate_setting |-> bitrate_setting,
             gapless_setting |-> gapless_setting,
             player_config |-> player_config]

NoCall == [op |-> "none", idx |-> 0, idx2 |-> 0, uri |-> NONE, items |-> << >>,
           done |-> FALSE, res |-> OK, cmds |-> << >>,
           pre |-> [queue |-> << >>, current_index |-> 0,
                    is_playing |-> FALSE, engine |-> NONE,
                    position_ms |-> 0, position_timestamp_ms |-> 0,
                    player |-> FALSE, session |-> FALSE, mixer |-> FALSE,
                    event_tx |-> FALSE, loops |-> 0, cancelled |-> 0,
                    bitrate_setting |-> DefaultBitrate,
                    gapless_setting |-> TRUE, player_config |-> NoConfig]]

Begin(op, idx, idx2, uri) ==
  [op |-> op, idx |-> idx, idx2 |-> idx2, uri |-> uri, items |-> << >>,
   done |-> FALSE, res |-> OK, cmds |-> << >>, pre |-> Snapshot]

End(c, r) == [c EXCEPT !.done = TRUE, !.res = r]
Cmd(c, u) == [c EXCEPT !.cmds = Append(@, u)]

\* One command or event handler at a time: the serial mode, which exercises
\* the queue, the tracker mode, which exercises the clock, and the lifecycle
\* mode, which exercises teardown, the listener's exit and the settings.
Serial == mode # "concurrent"

\* The observation is kept while calls do not overlap.
Observe(c) == call' = IF Serial THEN c ELSE call

\* A host thread may step: always in concurrent mode; in serial mode the host
\* calls from one thread, and only while no event handler is in progress.
Sched(t) ==
  /\ ~crashed
  /\ Serial =>
       /\ t = SerialThread
       /\ loop.pc = "wait"

SchedLoop ==
  /\ ~crashed
  /\ loops > 0
  /\ Serial => \A u \in HostThreads : pc[u] = "idle"

QueueCap ==
  IF mode = "serial" THEN MaxQueue
  ELSE IF mode = "tracker" THEN MaxTrackerQueue
  ELSE MaxRaceQueue

\* The identifiers the host appends or inserts: all of AddInputs while calls
\* do not overlap, one track and one rejected string while they do.
AddChoices == IF mode \in {"serial", "tracker"} THEN AddInputs ELSE {"t1", "bad"}

\* The clock readings and event payloads the environment produces.
Clock == IF mode = "tracker" THEN ClockReadings ELSE {Ms(1000)}
Positions == IF mode \in {"serial", "tracker"} THEN EventPositions ELSE {Ms(1000)}

Goto(t, label, locals) ==
  /\ pc' = [pc EXCEPT ![t] = label]
  /\ lcl' = [lcl EXCEPT ![t] = locals]

Return(t) == Goto(t, "idle", NoLocals)

\* ---------------------------------------------------------------------- Init
\* The statics before any call.
InitProgram ==
  /\ queue = << >>
  /\ current_index = 0
  /\ is_playing = FALSE
  /\ position_ms = 0
  /\ position_timestamp_ms = 0
  /\ player = FALSE
  /\ session = FALSE
  /\ mixer = FALSE
  /\ event_tx = FALSE
  /\ loops = 0
  /\ cancelled = 0
  /\ engine = NONE
  /\ pc = [t \in HostThreads |-> "idle"]
  /\ lcl = [t \in HostThreads |-> NoLocals]
  /\ loop = [pc |-> "wait", idx |-> 0, trk |-> NONE]
  /\ crashed = FALSE
  /\ teardowns = 0
  /\ bitrate_setting = DefaultBitrate
  /\ gapless_setting = TRUE
  /\ player_config = NoConfig
  /\ holder = [l \in Locks |-> NONE]
  /\ script = [t \in LockThreads |-> << >>]

InitState == InitProgram /\ call = NoCall

Init == InitState /\ mode = "concurrent"
SerialInit == InitState /\ mode = "serial"
TrackerInit == InitState /\ mode = "tracker"
LifecycleInit == InitState /\ mode = "lifecycle"

\* ------------------------------------------------- initialize (lib.rs 292-506)
\* Mutant: a live session does not stop initialize from connecting again.
InitCheck_AlwaysConnects(t) ==
  /\ pc[t] = "idle" /\ Sched(t)
  /\ \E token \in AccessTokens :
       IF token = NoToken
         THEN /\ Return(t)
              /\ Observe(End(Begin("init", 0, 0, token), ERR))
         ELSE /\ Goto(t, "init_connect", NoLocals)
              /\ Observe(Begin("init", 0, 0, token))
  /\ UNCHANGED <<progVars, loop, crashed, mode, teardowns, lockVars, settings, player_config>>

\* spotifly_init_player: the access_token checks, then the "already have a
\* session" check.
InitCheck(t) ==
  /\ pc[t] = "idle" /\ Sched(t)
  /\ \E token \in AccessTokens :
       IF token = NoToken
         THEN /\ Return(t)
              /\ Observe(End(Begin("init", 0, 0, token), ERR))
       ELSE IF session
         THEN /\ Return(t)
              /\ Observe(End(Begin("init", 0, 0, token), OK))
         ELSE /\ Goto(t, "init_connect", NoLocals)
              /\ Observe(Begin("init", 0, 0, token))
  /\ UNCHANGED <<progVars, loop, crashed, mode, teardowns, lockVars, settings, player_config>>

\* init_player_async: Session::connect, SoftMixer::open, the MIXER store.
InitConnect(t) ==
  /\ pc[t] = "init_connect" /\ Sched(t)
  /\ \E connected \in BOOLEAN, opened \in BOOLEAN :
       IF connected /\ opened
         THEN /\ mixer' = TRUE
              /\ Goto(t, "init_backend", NoLocals)
              /\ UNCHANGED call
         ELSE /\ Return(t)
              /\ Observe(End(call, ERR))
              /\ UNCHANGED mixer
  /\ UNCHANGED <<tracker, queue, current_index, is_playing, player, session,
                 event_tx, loops, cancelled, engine, loop, crashed, mode, teardowns, lockVars, settings, player_config>>

\* The Bitrate a stored setting selects (lib.rs 359-363), in kbps.
Bitrate(setting) ==
  IF setting = 0 THEN 96 ELSE IF setting = 2 THEN 320 ELSE 160

\* init_player_async: the read of the two settings into the PlayerConfig,
\* audio_backend::find, Player::new with that config, the spawn of the event
\* listener task.
InitBackend(t) ==
  /\ pc[t] = "init_backend" /\ Sched(t)
  /\ \E found \in BOOLEAN :
       IF found
         THEN /\ loops' = loops + 1
              /\ Goto(t, "init_store_player",
                      [idx |-> 0, trk |-> NONE, items |-> << >>,
                       player_config |-> [bitrate |-> Bitrate(bitrate_setting),
                                          gapless |-> gapless_setting]])
              /\ UNCHANGED call
         ELSE /\ Return(t)
              /\ Observe(End(call, ERR))
              /\ UNCHANGED loops
  /\ UNCHANGED <<tracker, queue, current_index, is_playing, player, session, mixer,
                 event_tx, cancelled, engine, loop, crashed, mode, teardowns, lockVars, settings, player_config>>

InitStorePlayer(t) ==
  /\ pc[t] = "init_store_player" /\ Sched(t)
  /\ player' = TRUE
  /\ player_config' = lcl[t].player_config
  /\ Goto(t, "init_store_session", NoLocals)
  /\ UNCHANGED <<tracker, queue, current_index, is_playing, session, mixer,
                 event_tx, loops, cancelled, engine, loop, crashed, mode, teardowns, lockVars, settings, call>>

InitStoreSession(t) ==
  /\ pc[t] = "init_store_session" /\ Sched(t)
  /\ session' = TRUE
  /\ Goto(t, "init_store_tx", NoLocals)
  /\ UNCHANGED <<tracker, queue, current_index, is_playing, player, mixer,
                 event_tx, loops, cancelled, engine, loop, crashed, mode, teardowns, lockVars, settings, player_config, call>>

\* The PLAYER_EVENT_TX store, which drops the sender another initialize had
\* stored there and so readies rx.recv() in that initialize's listener; then
\* Spirc::new, which is best effort (a failure only logs a warning); nothing
\* else reads either, and Ok(()) => 0 follows.
InitStoreTx(t) ==
  /\ pc[t] = "init_store_tx" /\ Sched(t)
  /\ event_tx' = TRUE
  /\ cancelled' = IF event_tx THEN cancelled + 1 ELSE cancelled
  /\ Return(t)
  /\ Observe(End(call, OK))
  /\ UNCHANGED <<tracker, queue, current_index, is_playing, player, session, mixer,
                 loops, engine, loop, crashed, mode, teardowns, lockVars, settings, player_config>>

\* ------------------------------------------------------ play (lib.rs 635-786)
\* Mutant: a resolution that yields nothing is reported as success.
PlayResolve_SilentOnError(t) ==
  /\ pc[t] = "idle" /\ Sched(t)
  /\ \E u \in PlayInputs :
       \E items \in IF player /\ session THEN resolve_play(u) ELSE {<< >>} :
         IF items = << >>
           THEN /\ Return(t)
                /\ Observe(End(Begin("play", 0, 0, u),
                               IF player /\ session THEN OK ELSE ERR))
           ELSE /\ Goto(t, "play_replace",
                        [idx |-> 0, items |-> items,
                         trk |-> IF UriKind(u) = "track" THEN u ELSE NONE])
                /\ Observe([Begin("play", 0, 0, u) EXCEPT !.items = items])
  /\ UNCHANGED <<progVars, loop, crashed, mode, teardowns, lockVars, settings, player_config>>

\* spotifly_play_track up to the queue replacement: the PLAYER and SESSION
\* checks, parse_spotify_uri, and the resolution of the track or collection.
\* Every failure returns -1 from here; success carries the resolved
\* queue_items to the QUEUE critical section.
PlayResolve(t) ==
  /\ pc[t] = "idle" /\ Sched(t)
  /\ \E u \in PlayInputs :
       \E items \in IF player /\ session THEN resolve_play(u) ELSE {<< >>} :
         IF items = << >>
           THEN /\ Return(t)
                /\ Observe(End(Begin("play", 0, 0, u), ERR))
           ELSE /\ Goto(t, "play_replace",
                        [idx |-> 0, items |-> items,
                         trk |-> IF UriKind(u) = "track" THEN u ELSE NONE])
                /\ Observe([Begin("play", 0, 0, u) EXCEPT !.items = items])
  /\ UNCHANGED <<progVars, loop, crashed, mode, teardowns, lockVars, settings, player_config>>

\* queue_guard.clear(); queue_guard.push / extend; drop(queue_guard)
PlayReplace(t) ==
  /\ pc[t] = "play_replace" /\ Sched(t)
  /\ queue' = lcl[t].items
  /\ Goto(t, "play_store", [lcl[t] EXCEPT !.items = << >>])
  /\ UNCHANGED <<tracker, current_index, is_playing, player, session, mixer,
                 event_tx, loops, cancelled, engine, loop, crashed, mode, teardowns, lockVars, settings, player_config, call>>

\* Mutant: the queue is replaced but CURRENT_INDEX is not reset.
PlayStore_KeepsCursor(t) ==
  /\ pc[t] = "play_store" /\ Sched(t)
  /\ current_index' = current_index
  /\ Goto(t, "play_load", lcl[t])
  /\ UNCHANGED <<tracker, queue, is_playing, player, session, mixer,
                 event_tx, loops, cancelled, engine, loop, crashed, mode, teardowns, lockVars, settings, player_config, call>>

\* CURRENT_INDEX.store(0)
PlayStore(t) ==
  /\ pc[t] = "play_store" /\ Sched(t)
  /\ current_index' = 0
  /\ Goto(t, "play_load", lcl[t])
  /\ UNCHANGED <<tracker, queue, is_playing, player, session, mixer,
                 event_tx, loops, cancelled, engine, loop, crashed, mode, teardowns, lockVars, settings, player_config, call>>

\* player.load of the track itself, or of QUEUE.lock().unwrap()[0].uri for a
\* collection (a panic on an empty queue); then IS_PLAYING.store(true), 0.
PlayLoad(t) ==
  /\ pc[t] = "play_load" /\ Sched(t)
  /\ IF lcl[t].trk = NONE /\ queue = << >>
       THEN /\ crashed' = TRUE
            /\ UNCHANGED <<engine, is_playing, pc, lcl, call>>
       ELSE LET first == IF lcl[t].trk = NONE THEN queue[1] ELSE lcl[t].trk
            IN /\ engine' = first
               /\ is_playing' = TRUE
               /\ Return(t)
               /\ Observe(End(Cmd(call, first), OK))
               /\ UNCHANGED crashed
  /\ UNCHANGED <<tracker, queue, current_index, player, session, mixer,
                 event_tx, loops, cancelled, loop, mode, teardowns, lockVars, settings, player_config>>

\* -------------------------------------------------- playMany (lib.rs 514-629)
\* Mutant: the queue is cleared before the identifiers are looked up.
PlayTracksResolve_ClearsFirst(t) ==
  /\ pc[t] = "idle" /\ Sched(t)
  /\ \E uris \in ManyInputs :
       \E resolved \in IF player /\ session THEN resolve_tracks(uris) ELSE {FALSE} :
         IF uris = << >> \/ ~resolved
           THEN /\ Return(t)
                /\ queue' = IF player /\ session THEN << >> ELSE queue
                /\ Observe(End([Begin("playMany", 0, 0, NONE)
                                  EXCEPT !.items = uris], ERR))
           ELSE /\ Goto(t, "many_replace",
                        [idx |-> 0, items |-> uris, trk |-> uris[1]])
                /\ UNCHANGED queue
                /\ Observe([Begin("playMany", 0, 0, NONE)
                              EXCEPT !.items = uris])
  /\ UNCHANGED <<tracker, current_index, is_playing, player, session, mixer,
                 event_tx, loops, cancelled, engine, loop, crashed, mode, teardowns, lockVars, settings, player_config>>

\* spotifly_play_tracks up to the queue replacement: the empty-list check,
\* the PLAYER and SESSION checks, and Track::get for every uri in order; the
\* first uri that does not parse, is no track or does not resolve fails the call.
PlayTracksResolve(t) ==
  /\ pc[t] = "idle" /\ Sched(t)
  /\ \E uris \in ManyInputs :
       \E resolved \in IF player /\ session THEN resolve_tracks(uris) ELSE {FALSE} :
         IF uris = << >> \/ ~resolved
           THEN /\ Return(t)
                /\ Observe(End([Begin("playMany", 0, 0, NONE)
                                  EXCEPT !.items = uris], ERR))
           ELSE /\ Goto(t, "many_replace",
                        [idx |-> 0, items |-> uris, trk |-> uris[1]])
                /\ Observe([Begin("playMany", 0, 0, NONE)
                              EXCEPT !.items = uris])
  /\ UNCHANGED <<progVars, loop, crashed, mode, teardowns, lockVars, settings, player_config>>

PlayTracksReplace(t) ==
  /\ pc[t] = "many_replace" /\ Sched(t)
  /\ queue' = lcl[t].items
  /\ Goto(t, "many_store", [lcl[t] EXCEPT !.items = << >>])
  /\ UNCHANGED <<tracker, current_index, is_playing, player, session, mixer,
                 event_tx, loops, cancelled, engine, loop, crashed, mode, teardowns, lockVars, settings, player_config, call>>

PlayTracksStore(t) ==
  /\ pc[t] = "many_store" /\ Sched(t)
  /\ current_index' = 0
  /\ Goto(t, "many_load", lcl[t])
  /\ UNCHANGED <<tracker, queue, is_playing, player, session, mixer,
                 event_tx, loops, cancelled, engine, loop, crashed, mode, teardowns, lockVars, settings, player_config, call>>

\* player.load(parse_spotify_uri(&track_uris[0])); Ok(()) => 0. IS_PLAYING is
\* not written on this path.
PlayTracksLoad(t) ==
  /\ pc[t] = "many_load" /\ Sched(t)
  /\ engine' = lcl[t].trk
  /\ Return(t)
  /\ Observe(End(Cmd(call, lcl[t].trk), OK))
  /\ UNCHANGED <<tracker, queue, current_index, is_playing, player, session, mixer,
                 event_tx, loops, cancelled, loop, crashed, mode, teardowns, lockVars, settings, player_config>>

\* --------------------------------- pause / resume / stop (lib.rs 791-840)
\* Mutant: the command does not look whether a player exists.
PlayerCommand_NoPlayerCheck(t, op, command, playing) ==
  /\ pc[t] = "idle" /\ Sched(t)
  /\ is_playing' = playing
  /\ Observe(End(Cmd(Begin(op, 0, 0, NONE), command), OK))
  /\ Return(t)
  /\ UNCHANGED <<tracker, queue, current_index, player, session, mixer,
                 event_tx, loops, cancelled, engine, loop, crashed, mode, teardowns, lockVars, settings, player_config>>

\* PLAYER.lock(); player.pause() / play() / stop(); IS_PLAYING.store(playing);
\* 0, or -1 without a player. `command` is what the engine is sent.
PlayerCommand(t, op, command, playing) ==
  /\ pc[t] = "idle" /\ Sched(t)
  /\ IF player
       THEN /\ is_playing' = playing
            /\ Observe(End(Cmd(Begin(op, 0, 0, NONE), command), OK))
       ELSE /\ UNCHANGED is_playing
            /\ Observe(End(Begin(op, 0, 0, NONE), ERR))
  /\ Return(t)
  /\ UNCHANGED <<tracker, queue, current_index, player, session, mixer,
                 event_tx, loops, cancelled, engine, loop, crashed, mode, teardowns, lockVars, settings, player_config>>

\* Mutant: pause() leaves IS_PLAYING to the Paused event.
Pause_WaitsForEvent(t) == PlayerCommand(t, "pause", "pause", is_playing)

Pause(t) == PlayerCommand(t, "pause", "pause", FALSE)
Resume(t) == PlayerCommand(t, "resume", "play", TRUE)
Stop(t) == PlayerCommand(t, "stop", "stop", FALSE)

\* ------------------------------------------------------ seek (lib.rs 965-978)
\* Mutant: seek() stores the target position itself.
Seek_StoresPosition(t) ==
  /\ pc[t] = "idle" /\ Sched(t)
  /\ \E ms \in Positions, now \in Clock :
       /\ Observe(IF player THEN End(Cmd(Begin("seek", ms, 0, NONE), "seek"), OK)
                  ELSE End(Begin("seek", ms, 0, NONE), ERR))
       /\ IF player THEN update_position(ms, now) ELSE UNCHANGED tracker
  /\ Return(t)
  /\ UNCHANGED <<queue, current_index, is_playing, player, session, mixer,
                 event_tx, loops, cancelled, engine, loop, crashed, mode, teardowns, lockVars, settings, player_config>>

\* The PLAYER check, then player.seek(position_ms); nothing is stored.
Seek(t) ==
  /\ pc[t] = "idle" /\ Sched(t)
  /\ \E ms \in Positions :
       Observe(IF player THEN End(Cmd(Begin("seek", ms, 0, NONE), "seek"), OK)
               ELSE End(Begin("seek", ms, 0, NONE), ERR))
  /\ Return(t)
  /\ UNCHANGED <<progVars, loop, crashed, mode, teardowns, lockVars, settings, player_config>>

\* ------------------------- the tail shared by next / previous / jumpToIndex
\* (lib.rs 891-915, 935-959, 997-1021, the same statements three times):
\* the PLAYER check, parse_spotify_uri(&track.uri), player.load(uri, true, 0),
\* IS_PLAYING.store(true), return 0; -1 without a player or a valid uri.
NavLoad(t) ==
  /\ pc[t] = "nav_load" /\ Sched(t)
  /\ IF player /\ parse_spotify_uri(lcl[t].trk)
       THEN /\ engine' = lcl[t].trk
            /\ is_playing' = TRUE
            /\ Observe(End(Cmd(call, lcl[t].trk), OK))
       ELSE /\ UNCHANGED <<engine, is_playing>>
            /\ Observe(End(call, ERR))
  /\ Return(t)
  /\ UNCHANGED <<tracker, queue, current_index, player, session, mixer,
                 event_tx, loops, cancelled, loop, crashed, mode, teardowns, lockVars, settings, player_config>>

\* ------------------------------------------------------ next (lib.rs 876-916)
NextLock(t) ==
  /\ pc[t] = "idle" /\ Sched(t)
  /\ IF current_index + 1 >= Len(queue)
       THEN /\ Return(t)
            /\ Observe(End(Begin("next", 0, 0, NONE), ERR))
       ELSE /\ Goto(t, "next_store",
                    [idx |-> current_index, items |-> << >>,
                     trk |-> queue[current_index + 2]])
            /\ Observe(Begin("next", 0, 0, NONE))
  /\ UNCHANGED <<progVars, loop, crashed, mode, teardowns, lockVars, settings, player_config>>

NextStore(t) ==
  /\ pc[t] = "next_store" /\ Sched(t)
  /\ current_index' = lcl[t].idx + 1
  /\ Goto(t, "nav_load", [lcl[t] EXCEPT !.idx = 0])
  /\ UNCHANGED <<tracker, queue, is_playing, player, session, mixer,
                 event_tx, loops, cancelled, engine, loop, crashed, mode, teardowns, lockVars, settings, player_config, call>>

\* -------------------------------------------------- previous (lib.rs 921-960)
\* CURRENT_INDEX.load and the == 0 test, before the queue lock is taken.
PreviousRead(t) ==
  /\ pc[t] = "idle" /\ Sched(t)
  /\ IF current_index = 0
       THEN /\ Return(t)
            /\ Observe(End(Begin("previous", 0, 0, NONE), ERR))
       ELSE /\ Goto(t, "prev_lock",
                    [idx |-> current_index, items |-> << >>, trk |-> NONE])
            /\ Observe(Begin("previous", 0, 0, NONE))
  /\ UNCHANGED <<progVars, loop, crashed, mode, teardowns, lockVars, settings, player_config>>

\* queue_guard[current_idx - 1].clone(): an index past the end panics.
PreviousLock(t) ==
  /\ pc[t] = "prev_lock" /\ Sched(t)
  /\ IF lcl[t].idx - 1 >= Len(queue)
       THEN /\ crashed' = TRUE
            /\ UNCHANGED <<pc, lcl>>
       ELSE /\ Goto(t, "prev_store", [lcl[t] EXCEPT !.trk = queue[lcl[t].idx]])
            /\ UNCHANGED crashed
  /\ UNCHANGED <<progVars, loop, mode, teardowns, lockVars, settings, player_config, call>>

\* Mutant: stores the cursor it read instead of the one before it.
PreviousStore_NoDecrement(t) ==
  /\ pc[t] = "prev_store" /\ Sched(t)
  /\ current_index' = lcl[t].idx
  /\ Goto(t, "nav_load", [lcl[t] EXCEPT !.idx = 0])
  /\ UNCHANGED <<tracker, queue, is_playing, player, session, mixer,
                 event_tx, loops, cancelled, engine, loop, crashed, mode, teardowns, lockVars, settings, player_config, call>>

PreviousStore(t) ==
  /\ pc[t] = "prev_store" /\ Sched(t)
  /\ current_index' = lcl[t].idx - 1
  /\ Goto(t, "nav_load", [lcl[t] EXCEPT !.idx = 0])
  /\ UNCHANGED <<tracker, queue, is_playing, player, session, mixer,
                 event_tx, loops, cancelled, engine, loop, crashed, mode, teardowns, lockVars, settings, player_config, call>>

\* ---------------------------------------------- jumpToIndex (lib.rs 983-1022)
JumpLock(t) ==
  /\ pc[t] = "idle" /\ Sched(t)
  /\ \E index \in 0..QueueCap :
       IF index >= Len(queue)
         THEN /\ Return(t)
              /\ Observe(End(Begin("jump", index, 0, NONE), ERR))
         ELSE /\ Goto(t, "jump_store",
                      [idx |-> index, items |-> << >>, trk |-> queue[index + 1]])
              /\ Observe(Begin("jump", index, 0, NONE))
  /\ UNCHANGED <<progVars, loop, crashed, mode, teardowns, lockVars, settings, player_config>>

\* Mutant: the cursor is not moved to the target index.
JumpStore_Forgotten(t) ==
  /\ pc[t] = "jump_store" /\ Sched(t)
  /\ current_index' = current_index
  /\ Goto(t, "nav_load", [lcl[t] EXCEPT !.idx = 0])
  /\ UNCHANGED <<tracker, queue, is_playing, player, session, mixer,
                 event_tx, loops, cancelled, engine, loop, crashed, mode, teardowns, lockVars, settings, player_config, call>>

JumpStore(t) ==
  /\ pc[t] = "jump_store" /\ Sched(t)
  /\ current_index' = lcl[t].idx
  /\ Goto(t, "nav_load", [lcl[t] EXCEPT !.idx = 0])
  /\ UNCHANGED <<tracker, queue, is_playing, player, session, mixer,
                 event_tx, loops, cancelled, engine, loop, crashed, mode, teardowns, lockVars, settings, player_config, call>>

\* ------------------------------------------- appendToQueue (lib.rs 1197-1272)
\* Mutant: the new item is put in front of the queue.
AddToQueue_Prepends(t) ==
  /\ pc[t] = "idle" /\ Sched(t)
  /\ \E u \in AddChoices, found \in BOOLEAN :
       LET fails == ~session \/ UriKind(u) # "track" \/ ~found
       IN /\ fails \/ Len(queue) < QueueCap
          /\ queue' = IF fails THEN queue ELSE <<u>> \o queue
          /\ Observe(End(Begin("append", 0, 0, u), IF fails THEN ERR ELSE OK))
  /\ Return(t)
  /\ UNCHANGED <<tracker, current_index, is_playing, player, session, mixer,
                 event_tx, loops, cancelled, engine, loop, crashed, mode, teardowns, lockVars, settings, player_config>>

\* SESSION check, parse, Track::get, then queue_guard.push(queue_item).
AddToQueue(t) ==
  /\ pc[t] = "idle" /\ Sched(t)
  /\ \E u \in AddChoices, found \in BOOLEAN :
       LET fails == ~session \/ UriKind(u) # "track" \/ ~found
       IN /\ fails \/ Len(queue) < QueueCap
          /\ queue' = IF fails THEN queue ELSE Append(queue, u)
          /\ Observe(End(Begin("append", 0, 0, u), IF fails THEN ERR ELSE OK))
  /\ Return(t)
  /\ UNCHANGED <<tracker, current_index, is_playing, player, session, mixer,
                 event_tx, loops, cancelled, engine, loop, crashed, mode, teardowns, lockVars, settings, player_config>>

\* ---------------------------------------------- insertNext (lib.rs 1278-1362)
\* Mutant: always inserts at the end of the queue.
insert_position_AtEnd(q, current_idx) ==
  IF q = << >> THEN 0 ELSE Len(q)

\* The insert position computed under the queue lock (lib.rs 1338-1342).
insert_position(q, current_idx) ==
  IF q = << >> THEN 0 ELSE Min(current_idx + 1, Len(q))

\* Vec::insert(index, item), index <= len.
VecInsert(q, index, item) ==
  SubSeq(q, 1, index) \o <<item>> \o SubSeq(q, index + 1, Len(q))

\* Mutant: removes the item before the index asked for.
VecRemove_OffByOne(q, index) ==
  SubSeq(q, 1, index - 1) \o SubSeq(q, index + 1, Len(q))

\* Vec::remove(index), index < len.
VecRemove(q, index) ==
  SubSeq(q, 1, index) \o SubSeq(q, index + 2, Len(q))

AddNextToQueue(t) ==
  /\ pc[t] = "idle" /\ Sched(t)
  /\ \E u \in AddChoices, found \in BOOLEAN :
       LET fails == ~session \/ UriKind(u) # "track" \/ ~found
       IN /\ fails \/ Len(queue) < QueueCap
          /\ queue' = IF fails THEN queue
                      ELSE VecInsert(queue, insert_position(queue, current_index), u)
          /\ Observe(End(Begin("insertNext", 0, 0, u), IF fails THEN ERR ELSE OK))
  /\ Return(t)
  /\ UNCHANGED <<tracker, current_index, is_playing, player, session, mixer,
                 event_tx, loops, cancelled, engine, loop, crashed, mode, teardowns, lockVars, settings, player_config>>

\* ------------------------------------------------ removeAt (lib.rs 1368-1385)
\* Mutant: the current track itself may be removed.
RemoveFromQueue_AllowsCurrent(t) ==
  /\ pc[t] = "idle" /\ Sched(t)
  /\ \E index \in 0..QueueCap :
       LET invalid == index < current_index \/ index >= Len(queue)
       IN /\ queue' = IF invalid THEN queue ELSE VecRemove(queue, index)
          /\ Observe(End(Begin("remove", index, 0, NONE),
                         IF invalid THEN ERR ELSE OK))
  /\ Return(t)
  /\ UNCHANGED <<tracker, current_index, is_playing, player, session, mixer,
                 event_tx, loops, cancelled, engine, loop, crashed, mode, teardowns, lockVars, settings, player_config>>

RemoveFromQueue(t) ==
  /\ pc[t] = "idle" /\ Sched(t)
  /\ \E index \in 0..QueueCap :
       LET invalid == index <= current_index \/ index >= Len(queue)
       IN /\ queue' = IF invalid THEN queue ELSE VecRemove(queue, index)
          /\ Observe(End(Begin("remove", index, 0, NONE),
                         IF invalid THEN ERR ELSE OK))
  /\ Return(t)
  /\ UNCHANGED <<tracker, current_index, is_playing, player, session, mixer,
                 event_tx, loops, cancelled, engine, loop, crashed, mode, teardowns, lockVars, settings, player_config>>

\* ------------------------------------------------ moveItem (lib.rs 1391-1418)
\* Mutant: the target index is not checked against the cursor.
MoveQueueItem_NoToCheck(t) ==
  /\ pc[t] = "idle" /\ Sched(t)
  /\ \E from_index \in 0..QueueCap, to_index \in 0..QueueCap :
       LET invalid == \/ from_index <= current_index
                      \/ from_index >= Len(queue)
                      \/ to_index >= Len(queue)
       IN /\ queue' = IF invalid \/ from_index = to_index THEN queue
                      ELSE VecInsert(VecRemove(queue, from_index), to_index,
                                     queue[from_index + 1])
          /\ Observe(End(Begin("move", from_index, to_index, NONE),
                         IF invalid THEN ERR ELSE OK))
  /\ Return(t)
  /\ UNCHANGED <<tracker, current_index, is_playing, player, session, mixer,
                 event_tx, loops, cancelled, engine, loop, crashed, mode, teardowns, lockVars, settings, player_config>>

\* Mutant: exchanges the two items instead of relocating one.
MoveQueueItem_Swaps(t) ==
  /\ pc[t] = "idle" /\ Sched(t)
  /\ \E from_index \in 0..QueueCap, to_index \in 0..QueueCap :
       LET invalid == \/ from_index <= current_index
                      \/ to_index <= current_index
                      \/ from_index >= Len(queue)
                      \/ to_index >= Len(queue)
       IN /\ queue' = IF invalid \/ from_index = to_index THEN queue
                      ELSE [queue EXCEPT ![from_index + 1] = queue[to_index + 1],
                                         ![to_index + 1] = queue[from_index + 1]]
          /\ Observe(End(Begin("move", from_index, to_index, NONE),
                         IF invalid THEN ERR ELSE OK))
  /\ Return(t)
  /\ UNCHANGED <<tracker, current_index, is_playing, player, session, mixer,
                 event_tx, loops, cancelled, engine, loop, crashed, mode, teardowns, lockVars, settings, player_config>>

MoveQueueItem(t) ==
  /\ pc[t] = "idle" /\ Sched(t)
  /\ \E from_index \in 0..QueueCap, to_index \in 0..QueueCap :
       LET invalid == \/ from_index <= current_index
                      \/ to_index <= current_index
                      \/ from_index >= Len(queue)
                      \/ to_index >= Len(queue)
       IN /\ queue' = IF invalid \/ from_index = to_index THEN queue
                      ELSE VecInsert(VecRemove(queue, from_index), to_index,
                                     queue[from_index + 1])
          /\ Observe(End(Begin("move", from_index, to_index, NONE),
                         IF invalid THEN ERR ELSE OK))
  /\ Return(t)
  /\ UNCHANGED <<tracker, current_index, is_playing, player, session, mixer,
                 event_tx, loops, cancelled, engine, loop, crashed, mode, teardowns, lockVars, settings, player_config>>

\* ------------------------------------------- clearUpcoming (lib.rs 1424-1433)
\* Mutant: truncates to current_idx, dropping the current track too.
ClearUpcomingQueue_DropsCurrent(t) ==
  /\ pc[t] = "idle" /\ Sched(t)
  /\ queue' = IF current_index + 1 < Len(queue)
                THEN SubSeq(queue, 1, current_index)
                ELSE queue
  /\ Observe(End(Begin("clear", 0, 0, NONE), OK))
  /\ Return(t)
  /\ UNCHANGED <<tracker, current_index, is_playing, player, session, mixer,
                 event_tx, loops, cancelled, engine, loop, crashed, mode, teardowns, lockVars, settings, player_config>>

ClearUpcomingQueue(t) ==
  /\ pc[t] = "idle" /\ Sched(t)
  /\ queue' = IF current_index + 1 < Len(queue)
                THEN SubSeq(queue, 1, current_index + 1)
                ELSE queue
  /\ Observe(End(Begin("clear", 0, 0, NONE), OK))
  /\ Return(t)
  /\ UNCHANGED <<tracker, current_index, is_playing, player, session, mixer,
                 event_tx, loops, cancelled, engine, loop, crashed, mode, teardowns, lockVars, settings, player_config>>

\* ----------------------------------------------- setVolume (lib.rs 1527-1539)
\* MIXER.lock(); mixer.set_volume(volume); 0, or -1 without a mixer. The
\* volume lives in the mixer and is read by nothing here.
SetVolume(t) ==
  /\ pc[t] = "idle" /\ Sched(t)
  /\ \E volume \in Volumes :
       Observe(End(Begin("setVolume", volume, 0, NONE), IF mixer THEN OK ELSE ERR))
  /\ Return(t)
  /\ UNCHANGED <<progVars, loop, crashed, mode, teardowns, lockVars, settings, player_config>>

\* --------------------------------- the event listener task (lib.rs 398-453)
\* Playing { position_ms } / Paused { position_ms } / Stopped (position 0):
\* the IS_PLAYING store and update_position. The engine has events to emit
\* once a track was loaded into it. The observation keeps the event, its
\* payload and the clock reading update_position took.
LoopPlayState(playing) ==
  /\ loop.pc = "wait" /\ SchedLoop /\ engine # NONE
  /\ \E event \in IF playing THEN {"Playing"} ELSE {"Paused", "Stopped"} :
       \E p \in Positions, now \in Clock :
         /\ is_playing' = playing
         /\ update_position(IF event = "Stopped" THEN 0 ELSE p, now)
         /\ Observe(End(Begin(event, IF event = "Stopped" THEN 0 ELSE p, now, NONE), OK))
  /\ UNCHANGED <<queue, current_index, player, session, mixer,
                 event_tx, loops, cancelled, engine, pc, lcl, loop, crashed, mode, teardowns, lockVars, settings, player_config>>

LoopPlaying == LoopPlayState(TRUE)
LoopPausedOrStopped == LoopPlayState(FALSE)

\* Mutant: a position report also marks the track as playing.
LoopPositionChanged_SetsPlaying ==
  /\ loop.pc = "wait" /\ SchedLoop /\ engine # NONE
  /\ \E event \in {"PositionChanged", "Seeked"}, p \in Positions, now \in Clock :
       /\ update_position(p, now)
       /\ Observe(End(Begin(event, p, now, NONE), OK))
  /\ is_playing' = TRUE
  /\ UNCHANGED <<queue, current_index, player, session, mixer,
                 event_tx, loops, cancelled, engine, pc, lcl, loop, crashed, mode,
                 teardowns, lockVars, settings, player_config>>

\* PositionChanged { position_ms } and Seeked { position_ms }: update_position.
LoopPositionChanged ==
  /\ loop.pc = "wait" /\ SchedLoop /\ engine # NONE
  /\ \E event \in {"PositionChanged", "Seeked"}, p \in Positions, now \in Clock :
       /\ update_position(p, now)
       /\ Observe(End(Begin(event, p, now, NONE), OK))
  /\ UNCHANGED <<queue, current_index, is_playing, player, session, mixer,
                 event_tx, loops, cancelled, engine, pc, lcl, loop, crashed, mode, teardowns, lockVars, settings, player_config>>

\* Mutant: the stored position survives the end of the track.
LoopEndOfTrack_KeepsPosition ==
  /\ loop.pc = "wait" /\ SchedLoop /\ engine # NONE
  /\ is_playing' = FALSE
  /\ loop' = [loop EXCEPT !.pc = "eot_lock"]
  /\ Observe(Begin("EndOfTrack", 0, 0, NONE))
  /\ UNCHANGED <<tracker, queue, current_index, player, session, mixer,
                 event_tx, loops, cancelled, engine, pc, lcl, crashed, mode, teardowns, lockVars, settings, player_config>>

\* EndOfTrack: IS_PLAYING.store(false); update_position(0)
LoopEndOfTrack ==
  /\ loop.pc = "wait" /\ SchedLoop /\ engine # NONE
  /\ is_playing' = FALSE
  /\ \E now \in Clock : update_position(0, now)
  /\ loop' = [loop EXCEPT !.pc = "eot_lock"]
  /\ Observe(Begin("EndOfTrack", 0, 0, NONE))
  /\ UNCHANGED <<queue, current_index, player, session, mixer,
                 event_tx, loops, cancelled, engine, pc, lcl, crashed, mode, teardowns, lockVars, settings, player_config>>

\* QUEUE.lock(); CURRENT_INDEX.load(); the successor test; the clone of the
\* next track; drop(queue_guard).
LoopEndOfTrackLock ==
  /\ loop.pc = "eot_lock" /\ SchedLoop
  /\ IF current_index + 1 < Len(queue)
       THEN /\ loop' = [pc |-> "eot_store", idx |-> current_index,
                        trk |-> queue[current_index + 2]]
            /\ UNCHANGED call
       ELSE /\ loop' = [pc |-> "wait", idx |-> 0, trk |-> NONE]
            /\ Observe(End(call, OK))
  /\ UNCHANGED <<progVars, pc, lcl, crashed, mode, teardowns, lockVars, settings, player_config>>

\* CURRENT_INDEX.store(current_idx + 1), after the queue lock was dropped.
LoopEndOfTrackStore ==
  /\ loop.pc = "eot_store" /\ SchedLoop
  /\ current_index' = loop.idx + 1
  /\ loop' = [loop EXCEPT !.pc = "eot_load", !.idx = 0]
  /\ UNCHANGED <<tracker, queue, is_playing, player, session, mixer,
                 event_tx, loops, cancelled, engine, pc, lcl, crashed, mode, teardowns, lockVars, settings, player_config, call>>

\* Mutant: the next track is loaded but IS_PLAYING stays false.
LoopEndOfTrackLoad_StaysStopped ==
  /\ loop.pc = "eot_load" /\ SchedLoop
  /\ IF parse_spotify_uri(loop.trk)
       THEN /\ engine' = loop.trk
            /\ UNCHANGED is_playing
            /\ Observe(End(Cmd(call, loop.trk), OK))
       ELSE /\ UNCHANGED <<engine, is_playing>>
            /\ Observe(End(call, OK))
  /\ loop' = [pc |-> "wait", idx |-> 0, trk |-> NONE]
  /\ UNCHANGED <<tracker, queue, current_index, player, session, mixer,
                 event_tx, loops, cancelled, pc, lcl, crashed, mode, teardowns, lockVars, settings, player_config>>

\* player_clone.load(spotify_uri, true, 0); IS_PLAYING.store(true)
LoopEndOfTrackLoad ==
  /\ loop.pc = "eot_load" /\ SchedLoop
  /\ IF parse_spotify_uri(loop.trk)
       THEN /\ engine' = loop.trk
            /\ is_playing' = TRUE
            /\ Observe(End(Cmd(call, loop.trk), OK))
       ELSE /\ UNCHANGED <<engine, is_playing>>
            /\ Observe(End(call, OK))
  /\ loop' = [pc |-> "wait", idx |-> 0, trk |-> NONE]
  /\ UNCHANGED <<tracker, queue, current_index, player, session, mixer,
                 event_tx, loops, cancelled, pc, lcl, crashed, mode, teardowns, lockVars, settings, player_config>>

\* Mutant: the listener takes the signal and keeps waiting.
LoopCancelled_KeepsRunning ==
  /\ loop.pc = "wait" /\ SchedLoop
  /\ cancelled > 0
  /\ cancelled' = cancelled - 1
  /\ Observe(End(Begin("Cancelled", 0, 0, NONE), OK))
  /\ UNCHANGED <<tracker, queue, current_index, is_playing, player, session, mixer,
                 event_tx, loops, engine, pc, lcl, loop, crashed, mode, teardowns, lockVars, settings, player_config>>

\* Mutant: the listener waits on the event stream alone and looks at the stop
\* channel only when an event has woken it.
LoopCancelled_BlocksOnEvents ==
  /\ loop.pc = "wait" /\ SchedLoop
  /\ cancelled > 0
  /\ engine # NONE
  /\ loops' = loops - 1
  /\ cancelled' = cancelled - 1
  /\ Observe(End(Begin("Cancelled", 0, 0, NONE), OK))
  /\ UNCHANGED <<tracker, queue, current_index, is_playing, player, session, mixer,
                 event_tx, engine, pc, lcl, loop, crashed, mode, teardowns, lockVars, settings,
                 player_config>>

\* _ = rx.recv() => break, then drop(player_clone): a listener whose stop
\* channel is ready leaves its loop (lib.rs 401-404, 452).
LoopCancelled ==
  /\ loop.pc = "wait" /\ SchedLoop
  /\ cancelled > 0
  /\ loops' = loops - 1
  /\ cancelled' = cancelled - 1
  /\ Observe(End(Begin("Cancelled", 0, 0, NONE), OK))
  /\ UNCHANGED <<tracker, queue, current_index, is_playing, player, session, mixer,
                 event_tx, engine, pc, lcl, loop, crashed, mode, teardowns, lockVars, settings, player_config>>

\* None => break: the engine closed its event stream (lib.rs 448, 452). The
\* listener that leaves is one whose stop channel is ready, if all are.
LoopStreamEnded ==
  /\ loop.pc = "wait" /\ SchedLoop
  /\ loops' = loops - 1
  /\ cancelled' = Min(cancelled, loops - 1)
  /\ Observe(End(Begin("StreamEnded", 0, 0, NONE), OK))
  /\ UNCHANGED <<tracker, queue, current_index, is_playing, player, session, mixer,
                 event_tx, engine, pc, lcl, loop, crashed, mode, teardowns, lockVars, settings, player_config>>

\* ------------------------------------------------ teardown (spec.md section 4)
\* The source has no teardown entry point; this is the operation as the
\* specification describes it: on a live session it signals the listener
\* through the stored sender, releases the session, engine and mixer handles
\* and the sender, and resets the position tracking to (0, not playing); on
\* an uninitialized system it does nothing.
Teardown(t) ==
  /\ pc[t] = "idle" /\ Sched(t)
  /\ teardowns < MaxTeardowns
  /\ teardowns' = teardowns + 1
  /\ IF session
       THEN /\ session' = FALSE
            /\ player' = FALSE
            /\ mixer' = FALSE
            /\ event_tx' = FALSE
            /\ cancelled' = IF event_tx THEN Min(cancelled + 1, loops) ELSE cancelled
            /\ engine' = NONE
            /\ player_config' = NoConfig
            /\ is_playing' = FALSE
            /\ \E now \in Clock : update_position(0, now)
       ELSE UNCHANGED <<session, player, mixer, event_tx, cancelled, engine,
                        is_playing, tracker, player_config>>
  /\ Observe(End(Begin("teardown", 0, 0, NONE), OK))
  /\ Return(t)
  /\ UNCHANGED <<queue, current_index, loops, loop, crashed, mode, settings,
                 lockVars>>

\* ------------------------------------------- settings (lib.rs 1545-1575)
\* Mutant: the new level is applied to the open engine as well.
SetBitrate_Reconfigures(t) ==
  /\ pc[t] = "idle" /\ Sched(t)
  /\ \E bitrate \in BitrateInputs :
       /\ bitrate_setting' = Min(bitrate, MaxBitrateSetting)
       /\ player_config' =
            IF player_config = NoConfig THEN NoConfig
            ELSE [player_config EXCEPT
                    !.bitrate = Bitrate(Min(bitrate, MaxBitrateSetting))]
       /\ Observe(End(Begin("setBitrate", bitrate, 0, NONE), OK))
  /\ Return(t)
  /\ UNCHANGED <<progVars, gapless_setting, loop, crashed, mode, teardowns, lockVars>>

\* spotifly_set_bitrate: bitrate.min(2) is swapped into BITRATE_SETTING.
SetBitrate(t) ==
  /\ pc[t] = "idle" /\ Sched(t)
  /\ \E bitrate \in BitrateInputs :
       /\ bitrate_setting' = Min(bitrate, MaxBitrateSetting)
       /\ Observe(End(Begin("setBitrate", bitrate, 0, NONE), OK))
  /\ Return(t)
  /\ UNCHANGED <<progVars, gapless_setting, player_config, loop, crashed, mode,
                 teardowns, lockVars>>

\* spotifly_set_gapless: enabled is swapped into GAPLESS_SETTING.
SetGapless(t) ==
  /\ pc[t] = "idle" /\ Sched(t)
  /\ \E enabled \in BOOLEAN :
       /\ gapless_setting' = enabled
       /\ Observe(End(Begin("setGapless", IF enabled THEN 1 ELSE 0, 0, NONE), OK))
  /\ Return(t)
  /\ UNCHANGED <<progVars, bitrate_setting, player_config, loop, crashed, mode,
                 teardowns, lockVars>>

\* spotifly_get_bitrate and spotifly_get_gapless
spotifly_get_bitrate == bitrate_setting
spotifly_get_gapless == gapless_setting

\* ------------------------------------------------ url_to_uri (lib.rs 79-113)
\* A string is a sequence of pieces, each a run of characters that the
\* function's tests never cut: "spotify:", "http://", "https://",
\* "open.spotify.com/", "/", "?", ":", a locale segment "intl-de" and words.
Marker == "open.spotify.com/"
Locales == {"intl-de"}

\* str::starts_with, for a prefix that is one of `pieces`.
starts_with(s, pieces) == Len(s) > 0 /\ s[1] \in pieces

\* str::find: the position of the first occurrence of `piece`, 0 for None.
find(s, piece) ==
  IF \E i \in 1..Len(s) : s[i] = piece
    THEN CHOOSE i \in 1..Len(s) :
           s[i] = piece /\ \A j \in 1..(i - 1) : s[j] # piece
    ELSE 0

\* str::split('/'): the parts between the slashes, empty parts included.
RECURSIVE split(_)
split(s) ==
  IF find(s, "/") = 0 THEN <<s>>
  ELSE <<SubSeq(s, 1, find(s, "/") - 1)>> \o split(SubSeq(s, find(s, "/") + 1, Len(s)))

url_to_uri(input) ==
  IF starts_with(input, {"spotify:"}) THEN input
  ELSE IF starts_with(input, {"http://", "https://"}) /\ find(input, Marker) # 0
    THEN LET after_marker == SubSeq(input, find(input, Marker) + 1, Len(input))
             parts == split(after_marker)
             filtered == SelectSeq(parts, LAMBDA p : ~starts_with(p, Locales))
         IN IF Len(filtered) >= 2
              THEN LET content_type == filtered[1]
                       query_pos == find(filtered[2], "?")
                       id == IF query_pos # 0
                               THEN SubSeq(filtered[2], 1, query_pos - 1)
                               ELSE filtered[2]
                   IN <<"spotify:">> \o content_type \o <<":">> \o id
              ELSE input
  ELSE input

\* The inputs: what comes before the path, and paths of up to MaxSegments
\* segments joined by slashes.
UrlPrefixes == {<< >>, <<"spotify:">>, <<Marker>>,
                <<"https://", Marker>>, <<"http://", Marker>>,
                <<"https://", "example.com/">>,
                <<"https://", "example.com/", Marker>>}
SegmentChoices == {<< >>, <<"track">>, <<"id">>, <<"intl-de">>, <<"id", "?", "si">>}

RECURSIVE PathsOf(_)
PathsOf(n) ==
  IF n = 0 THEN {<< >>}
  ELSE IF n = 1 THEN SegmentChoices
  ELSE {p \o <<"/">> \o seg : p \in PathsOf(n - 1), seg \in SegmentChoices}

UrlInputs ==
  {prefix \o path : prefix \in UrlPrefixes,
                    path \in UNION {PathsOf(n) : n \in 0..MaxSegments}}

\* One call of url_to_uri on a fresh process: the input is in call.items, the
\* returned string in call.cmds.
UrlInit ==
  /\ InitProgram /\ mode = "url"
  /\ \E input \in UrlInputs :
       call = [NoCall EXCEPT !.op = "url_to_uri", !.items = input]

UrlToUri ==
  /\ mode = "url" /\ ~call.done
  /\ call' = [call EXCEPT !.done = TRUE, !.cmds = url_to_uri(call.items)]
  /\ UNCHANGED <<progVars, pc, lcl, loop, crashed, mode, teardowns, lockVars, settings,
                 player_config>>

\* ------------------------------------------------------------ the locking
\* What a call does with the Mutex statics, in program order: lock() and the
\* drop of the guard (explicit, or the end of its scope), and the commands
\* it gives the engine in between.
Acq(l) == <<"lock", l>>
Rel(l) == <<"drop", l>>
EngineCommand == <<"command", NONE>>

\* spotifly_init_player on a live session (lib.rs 309-315).
init_ready_locks == <<Acq("SESSION"), Rel("SESSION")>>
\* spotifly_init_player and init_player_async (lib.rs 309-315, 352-355,
\* 457-468, 496-498).
init_locks ==
  <<Acq("SESSION"), Rel("SESSION"), Acq("MIXER"), Rel("MIXER"),
    Acq("PLAYER"), Rel("PLAYER"), Acq("SESSION"), Rel("SESSION"),
    Acq("PLAYER_EVENT_TX"), Rel("PLAYER_EVENT_TX"), Acq("SPIRC"), Rel("SPIRC")>>
\* spotifly_play_tracks, and spotifly_play_track of a track (lib.rs 544-614,
\* 654-709).
play_locks ==
  <<Acq("PLAYER"), Rel("PLAYER"), Acq("SESSION"), Rel("SESSION"),
    Acq("QUEUE"), Rel("QUEUE"), EngineCommand>>
\* spotifly_play_track of a collection, which locks QUEUE again for the
\* first uri (lib.rs 719-728).
play_collection_locks ==
  <<Acq("PLAYER"), Rel("PLAYER"), Acq("SESSION"), Rel("SESSION"),
    Acq("QUEUE"), Rel("QUEUE"), Acq("QUEUE"), Rel("QUEUE"), EngineCommand>>
\* spotifly_pause, spotifly_resume, spotifly_stop: the command is given
\* under the PLAYER guard (lib.rs 792-804).
pause_locks == <<Acq("PLAYER"), EngineCommand, Rel("PLAYER")>>
\* spotifly_seek (lib.rs 966-976).
seek_locks == <<Acq("PLAYER"), Rel("PLAYER"), EngineCommand>>

\* Mutant: next() keeps the queue guard until it has the player.
next_locks_Nested ==
  <<Acq("QUEUE"), Acq("PLAYER"), Rel("QUEUE"), Rel("PLAYER"), EngineCommand>>

\* spotifly_next, spotifly_previous, spotifly_jump_to_index (lib.rs 877-909,
\* 929-953, 984-1015).
next_locks ==
  <<Acq("QUEUE"), Rel("QUEUE"), Acq("PLAYER"), Rel("PLAYER"), EngineCommand>>
\* The queue getters, spotifly_remove_from_queue, spotifly_move_queue_item,
\* spotifly_clear_upcoming_queue (lib.rs 1027-1192, 1369-1433).
queue_locks == <<Acq("QUEUE"), Rel("QUEUE")>>
\* spotifly_add_to_queue, spotifly_add_next_to_queue (lib.rs 1213-1255,
\* 1294-1345).
add_locks == <<Acq("SESSION"), Rel("SESSION"), Acq("QUEUE"), Rel("QUEUE")>>
\* spotifly_get_radio_tracks (lib.rs 1455-1463).
radio_locks == <<Acq("SESSION"), Rel("SESSION")>>
\* spotifly_set_volume (lib.rs 1528-1539).
set_volume_locks == <<Acq("MIXER"), Rel("MIXER")>>

\* Mutant: the listener loads the next track under the queue guard.
end_of_track_locks_LoadsLocked == <<Acq("QUEUE"), EngineCommand, Rel("QUEUE")>>

\* The EndOfTrack arm (lib.rs 430-441).
end_of_track_locks == <<Acq("QUEUE"), Rel("QUEUE"), EngineCommand>>

HostCalls == {init_ready_locks, init_locks, play_locks, play_collection_locks,
              pause_locks, seek_locks, next_locks, queue_locks, add_locks,
              radio_locks, set_volume_locks}
CallsOf(t) == IF t = "listener" THEN {end_of_track_locks} ELSE HostCalls

Holds(t) == {l \in Locks : holder[l] = t}

LocksInit == InitProgram /\ mode = "locking" /\ call = NoCall

\* A thread enters a call.
LockCall(t) ==
  /\ script[t] = << >>
  /\ \E program \in CallsOf(t) : script' = [script EXCEPT ![t] = program]
  /\ UNCHANGED <<progVars, pc, lcl, loop, crashed, mode, teardowns, settings,
                 player_config, holder, call>>

\* Mutex::lock: blocks while the mutex is held, by whomever.
LockAcquire(t) ==
  /\ script[t] # << >> /\ Head(script[t])[1] = "lock"
  /\ holder[Head(script[t])[2]] = NONE
  /\ holder' = [holder EXCEPT ![Head(script[t])[2]] = t]
  /\ script' = [script EXCEPT ![t] = Tail(@)]
  /\ UNCHANGED <<progVars, pc, lcl, loop, crashed, mode, teardowns, settings,
                 player_config, call>>

\* The guard is dropped.
LockRelease(t) ==
  /\ script[t] # << >> /\ Head(script[t])[1] = "drop"
  /\ holder' = [holder EXCEPT ![Head(script[t])[2]] = NONE]
  /\ script' = [script EXCEPT ![t] = Tail(@)]
  /\ UNCHANGED <<progVars, pc, lcl, loop, crashed, mode, teardowns, settings,
                 player_config, call>>

\* player.load / pause / play / stop / seek.
LockCommand(t) ==
  /\ script[t] # << >> /\ Head(script[t])[1] = "command"
  /\ script' = [script EXCEPT ![t] = Tail(@)]
  /\ UNCHANGED <<progVars, pc, lcl, loop, crashed, mode, teardowns, settings,
                 player_config, holder, call>>

\* ---------------------------------------------------------------------- Next
InitSteps ==
  \/ \E t \in HostThreads : InitCheck(t)
  \/ \E t \in HostThreads : InitConnect(t)
  \/ \E t \in HostThreads : InitBackend(t)
  \/ \E t \in HostThreads : InitStorePlayer(t)
  \/ \E t \in HostThreads : InitStoreSession(t)
  \/ \E t \in HostThreads : InitStoreTx(t)

\* play and the commands that steer the engine.
PlaybackSteps ==
  \/ \E t \in HostThreads : PlayResolve(t)
  \/ \E t \in HostThreads : PlayReplace(t)
  \/ \E t \in HostThreads : PlayStore(t)
  \/ \E t \in HostThreads : PlayLoad(t)
  \/ \E t \in HostThreads : Pause(t)
  \/ \E t \in HostThreads : Resume(t)
  \/ \E t \in HostThreads : Stop(t)
  \/ \E t \in HostThreads : Seek(t)
  \/ \E t \in HostThreads : NextLock(t)
  \/ \E t \in HostThreads : NextStore(t)
  \/ \E t \in HostThreads : NavLoad(t)
  \/ \E t \in HostThreads : SetVolume(t)

\* playMany and the commands that edit the queue or move the cursor in it.
QueueSteps ==
  \/ \E t \in HostThreads : PlayTracksResolve(t)
  \/ \E t \in HostThreads : PlayTracksReplace(t)
  \/ \E t \in HostThreads : PlayTracksStore(t)
  \/ \E t \in HostThreads : PlayTracksLoad(t)
  \/ \E t \in HostThreads : PreviousRead(t)
  \/ \E t \in HostThreads : PreviousLock(t)
  \/ \E t \in HostThreads : PreviousStore(t)
  \/ \E t \in HostThreads : JumpLock(t)
  \/ \E t \in HostThreads : JumpStore(t)
  \/ \E t \in HostThreads : AddToQueue(t)
  \/ \E t \in HostThreads : AddNextToQueue(t)
  \/ \E t \in HostThreads : RemoveFromQueue(t)
  \/ \E t \in HostThreads : MoveQueueItem(t)
  \/ \E t \in HostThreads : ClearUpcomingQueue(t)

\* The event listener task's handlers.
ListenerSteps ==
  \/ LoopPlaying
  \/ LoopPausedOrStopped
  \/ LoopPositionChanged
  \/ LoopEndOfTrack
  \/ LoopEndOfTrackLock
  \/ LoopEndOfTrackStore
  \/ LoopEndOfTrackLoad

Next ==
  \/ InitSteps
  \/ PlaybackSteps
  \/ QueueSteps
  \/ ListenerSteps

\* Overlapping initialize calls add the exit of a listener whose sender the
\* later call replaced.
NextConcurrent ==
  \/ Next
  \/ LoopCancelled

\* Host commands from several threads and the event listener, interleaved.
Spec == Init /\ [][NextConcurrent]_vars

\* One command or event handler at a time, each observed from call to return.
SpecSeq == SerialInit /\ [][Next]_vars

\* The same discipline, over every clock reading and event payload.
SpecTracker == TrackerInit /\ [][Next]_vars

\* The same discipline with sessions that end: initialize, teardown, playback
\* and the listener with its exits; the queue is whatever play commits.
NextLifecycle ==
  \/ InitSteps
  \/ PlaybackSteps
  \/ ListenerSteps
  \/ LoopCancelled
  \/ LoopStreamEnded
  \/ \E t \in HostThreads : Teardown(t)

SpecLifecycle == LifecycleInit /\ [][NextLifecycle]_vars

\* A command that was called and a handler that was entered run to their end.
Progress == ~(loop.pc = "wait" /\ \A t \in HostThreads : pc[t] = "idle") /\ NextLifecycle

\* The same with the scheduling the runtime provides: running code proceeds,
\* and the listener task, which select! polls on both branches with a random
\* first branch, does not pass over a ready stop channel forever.
SpecLifecycleFair ==
  /\ SpecLifecycle
  /\ WF_vars(Progress)
  /\ SF_vars(LoopCancelled)

\* The same discipline with settings that change between and during sessions:
\* initialize, teardown, the setters and the listener's exits.
NextSettings ==
  \/ InitSteps
  \/ LoopCancelled
  \/ LoopStreamEnded
  \/ \E t \in HostThreads : Teardown(t)
  \/ \E t \in HostThreads : SetBitrate(t)
  \/ \E t \in HostThreads : SetGapless(t)

SpecSettings == LifecycleInit /\ [][NextSettings]_vars

\* The calls of the host threads and the EndOfTrack handling of the listener,
\* reduced to what they do with the locks.
NextLocks ==
  \/ \E t \in LockThreads : LockCall(t)
  \/ \E t \in LockThreads : LockAcquire(t)
  \/ \E t \in LockThreads : LockRelease(t)
  \/ \E t \in LockThreads : LockCommand(t)

SpecLocks == LocksInit /\ [][NextLocks]_vars

\* url_to_uri applied to each of its inputs.
SpecUrl == UrlInit /\ [][UrlToUri]_vars

\* ------------------------------------------------------------------- claims
\* ------------------------------------------------- the position read alone
\* position_ms payloads the engine can report (a u32): the start of a track,
\* one second in, and the last second before and at u32::MAX.
StoredPositions == {0, Ms(1000), U32Max - Ms(1000), U32Max}
\* Readings of SystemTime::now() relative to the UNIX epoch: one second
\* before it, at it, and the readings of ClockReadings after it.
WallClocks == {0 - Ms(1000), 0} \cup ClockReadings

\* current_timestamp_ms, with `wall` what SystemTime::now() reads:
\* duration_since(UNIX_EPOCH) fails before the epoch and unwrap_or makes it
\* Duration::ZERO.
current_timestamp_ms(wall) == IF wall >= 0 THEN wall ELSE 0

\* The tracker as an engine event left it: Playing or Paused { position_ms }
\* handled at some wall clock stored the flag, the position and
\* current_timestamp_ms() (lib.rs 407-425, 61-64).
PositionInit ==
  /\ mode = "position"
  /\ call = NoCall
  /\ \E p \in StoredPositions, wall \in WallClocks, playing \in BOOLEAN :
       /\ is_playing = playing
       /\ position_ms = p
       /\ position_timestamp_ms = current_timestamp_ms(wall)
  /\ queue = << >>
  /\ current_index = 0
  /\ player = TRUE
  /\ session = TRUE
  /\ mixer = TRUE
  /\ event_tx = TRUE
  /\ loops = 1
  /\ cancelled = 0
  /\ engine = NONE
  /\ pc = [t \in HostThreads |-> "idle"]
  /\ lcl = [t \in HostThreads |-> NoLocals]
  /\ loop = [pc |-> "wait", idx |-> 0, trk |-> NONE]
  /\ crashed = FALSE
  /\ teardowns = 0
  /\ bitrate_setting = DefaultBitrate
  /\ gapless_setting = TRUE
  /\ player_config = [bitrate |-> Bitrate(DefaultBitrate), gapless |-> TRUE]
  /\ holder = [l \in Locks |-> NONE]
  /\ script = [t \in LockThreads |-> << >>]

\* spotifly_get_position_ms called once, at some wall clock: the call keeps
\* the reading of current_timestamp_ms() in idx and the value returned in res.
GetPositionMs ==
  /\ mode = "position" /\ ~call.done
  /\ \E wall \in WallClocks :
       call' = End(Begin("positionMs", current_timestamp_ms(wall), 0, NONE),
                   get_position_ms(current_timestamp_ms(wall)))
  /\ UNCHANGED <<progVars, pc, lcl, loop, crashed, mode, teardowns, lockVars,
                 settings, player_config>>

\* spotifly_get_position_ms applied to each stored position, stored timestamp
\* and clock reading.
SpecPosition == PositionInit /\ [][GetPositionMs]_vars

\* No command is in progress and the event listener waits for an event.
Quiescent ==
  /\ \A t \in HostThreads : pc[t] = "idle"
  /\ loop.pc = "wait"

\* The command or event `op` was observed from its call to its return.
Done(op) == call.op = op /\ call.done

\* q without the item at (0-based) index i.
Without(q, i) == [k \in 1..(Len(q) - 1) |-> IF k <= i THEN q[k] ELSE q[k + 1]]

\* How often x occurs in q.
Count(q, x) == Cardinality({k \in 1..Len(q) : q[k] = x})

\* C1: under any interleaving of host commands on several threads with the
\* EndOfTrack handling, a non-empty queue has 0 <= current_index < length and
\* an empty queue has current_index = 0. Stated where it is weakest: in the
\* states in which every command has returned and the listener is waiting.
C1_CursorWithinQueue ==
  Quiescent =>
    IF queue = << >> THEN current_index = 0
    ELSE 0 <= current_index /\ current_index < Len(queue)

\* C2: after a successful play or playMany the cursor reads 0 and the queue
\* is exactly the resolved items, in the resolved order, whatever the prior
\* queue and cursor were.
C2_ReplaceResetsCursor ==
  (call.op \in {"play", "playMany"} /\ call.done /\ call.res = OK) =>
    /\ current_index = 0
    /\ Len(queue) = Len(call.items)
    /\ queue = call.items

C2_Witness ==
  /\ Done("play") /\ call.res = OK
  /\ call.pre.current_index > 0
  /\ Len(call.pre.queue) > Len(queue)

\* C3: remove(index) succeeds iff current_index < index < length; on success
\* exactly that item is deleted and the others keep their order; otherwise it
\* fails and queue and cursor are unchanged.
C3_RemoveContract ==
  Done("remove") =>
    LET q == call.pre.queue
        valid == call.pre.current_index < call.idx /\ call.idx < Len(q)
    IN /\ call.res = OK <=> valid
       /\ call.res = ERR <=> ~valid
       /\ current_index = call.pre.current_index
       /\ valid => /\ Len(queue) = Len(q) - 1
                   /\ queue = Without(q, call.idx)
       /\ ~valid => queue = q

C3_Witness ==
  /\ Done("remove") /\ call.res = OK
  /\ call.idx + 1 < Len(call.pre.queue)
  /\ queue[call.idx + 1] # call.pre.queue[call.idx + 1]

\* C4: move(from, to) succeeds iff current_index < from < length and
\* current_index < to < length, from = to being a successful no-op; otherwise
\* it fails and queue and cursor are unchanged.
C4_MoveContract ==
  Done("move") =>
    LET q == call.pre.queue
        inside(i) == call.pre.current_index < i /\ i < Len(q)
        valid == inside(call.idx) /\ inside(call.idx2)
    IN /\ call.res = OK <=> valid
       /\ call.res = ERR <=> ~valid
       /\ current_index = call.pre.current_index
       /\ Len(queue) = Len(q)
       /\ (~valid \/ call.idx = call.idx2) => queue = q

C4_Witness ==
  /\ Done("move") /\ call.res = ERR
  /\ call.pre.current_index < call.idx /\ call.idx < Len(call.pre.queue)
  /\ call.idx2 = call.pre.current_index
  /\ call.pre.queue[call.idx + 1] # call.pre.queue[call.idx2 + 1]

\* C5: a successful move(from, to) with from # to relocates one element: the
\* item formerly at `from` is at `to`, the other items keep their relative
\* order, the queue holds the same items as often as before, and the cursor
\* is unchanged.
C5_MoveRelocates ==
  (Done("move") /\ call.res = OK /\ call.idx # call.idx2) =>
    LET q == call.pre.queue
    IN /\ Len(queue) = Len(q)
       /\ queue[call.idx2 + 1] = q[call.idx + 1]
       /\ Without(queue, call.idx2) = Without(q, call.idx)
       /\ \A x \in Tracks : Count(queue, x) = Count(q, x)
       /\ current_index = call.pre.current_index

\* A relocation over two places that a swap of the two indices would not produce.
C5_Witness ==
  /\ Done("move") /\ call.res = OK
  /\ call.idx2 >= call.idx + 2
  /\ queue # [call.pre.queue EXCEPT ![call.idx + 1] = call.pre.queue[call.idx2 + 1],
                                    ![call.idx2 + 1] = call.pre.queue[call.idx + 1]]

\* C6: jumpToIndex(i) with i < length leaves current_index = i and issues one
\* load for the item at index i; with i >= length it fails, issues no engine
\* command and leaves queue, cursor and is_playing unchanged.
C6_JumpContract ==
  Done("jump") =>
    LET q == call.pre.queue
    IN IF call.idx < Len(q)
         THEN /\ call.res = OK
              /\ current_index = call.idx
              /\ queue = q
              /\ call.cmds = <<q[call.idx + 1]>>
              /\ engine = queue[current_index + 1]
         ELSE /\ call.res = ERR
              /\ call.cmds = << >>
              /\ queue = q
              /\ current_index = call.pre.current_index
              /\ is_playing = call.pre.is_playing
              /\ engine = call.pre.engine

C6_Witness ==
  /\ Done("jump") /\ call.res = OK
  /\ call.idx >= call.pre.current_index + 2
  /\ engine # call.pre.engine

\* C7: next() with current_index + 1 < length moves the cursor by +1 and loads
\* the item now at the cursor; previous() with current_index > 0 moves it by
\* -1 and loads that item; at a boundary the call fails and cursor, queue and
\* is_playing are unchanged and no engine command is issued.
C7_NextPreviousContract ==
  (call.done /\ call.op \in {"next", "previous"}) =>
    LET q == call.pre.queue
        c == call.pre.current_index
        step == IF call.op = "next" THEN 1 ELSE -1
        can == IF call.op = "next" THEN c + 1 < Len(q) ELSE c > 0
    IN IF can
         THEN /\ call.res = OK
              /\ current_index = c + step
              /\ queue = q
              /\ call.cmds = <<queue[current_index + 1]>>
              /\ engine = queue[current_index + 1]
         ELSE /\ call.res = ERR
              /\ call.cmds = << >>
              /\ queue = q
              /\ current_index = c
              /\ is_playing = call.pre.is_playing
              /\ engine = call.pre.engine

\* queue = [A, B, C]: previous() has brought the cursor back from 1 to 0.
C7_Witness ==
  /\ Done("previous") /\ call.res = OK
  /\ Len(queue) = 3
  /\ call.pre.current_index = 1 /\ current_index = 0
  /\ call.cmds = <<queue[1]>>
  /\ queue[1] # queue[2]

\* C8: insertNext(item) places the item at index 0 of an empty queue and at
\* current_index + 1 of a non-empty one, which is min(current_index + 1,
\* length); the items from the insertion point on shift up by one, the items
\* up to current_index stay, and the length grows by exactly 1.
C8_InsertNextPlacement ==
  (Done("insertNext") /\ call.res = OK) =>
    LET q == call.pre.queue
        p == IF q = << >> THEN 0 ELSE call.pre.current_index + 1
    IN /\ p = Min(call.pre.current_index + 1, Len(q))
       /\ Len(queue) = Len(q) + 1
       /\ queue[p + 1] = call.uri
       /\ \A k \in 1..p : queue[k] = q[k]
       /\ \A k \in (p + 1)..Len(q) : queue[k + 1] = q[k]
       /\ current_index = call.pre.current_index

C8_Witness ==
  /\ Done("insertNext") /\ call.res = OK
  /\ call.pre.current_index >= 1
  /\ call.pre.current_index + 1 < Len(call.pre.queue)
  /\ call.uri # call.pre.queue[call.pre.current_index + 2]

\* C9: clearUpcoming() drops every item after current_index and nothing else:
\* on a non-empty queue the length becomes current_index + 1 and the items
\* 0..current_index are unchanged; with nothing after the cursor (the empty
\* queue included) it is a successful no-op, so a repeated call changes nothing.
C9_ClearUpcoming ==
  Done("clear") =>
    LET q == call.pre.queue
        c == call.pre.current_index
    IN /\ call.res = OK
       /\ current_index = c
       /\ q # << >> => /\ Len(queue) = c + 1
                       /\ \A k \in 1..(c + 1) : queue[k] = q[k]
       /\ ~(c + 1 < Len(q)) => queue = q
       /\ ~(current_index + 1 < Len(queue))

C9_Witness ==
  /\ Done("clear")
  /\ call.pre.current_index >= 1
  /\ Len(call.pre.queue) >= call.pre.current_index + 3

\* C10: whatever appendToQueue, insertNext, removeAt, moveItem or
\* clearUpcoming does, succeeding or failing, every item that was at an index
\* 0..current_index before the call is at the same index after it, and the
\* cursor that delimits that prefix is the same.
C10_PlayedPrefixFrozen ==
  (call.done /\ call.op \in {"append", "insertNext", "remove", "move", "clear"}) =>
    LET q == call.pre.queue
        n == Min(call.pre.current_index + 1, Len(q))
    IN /\ current_index = call.pre.current_index
       /\ Len(queue) >= n
       /\ \A k \in 1..n : queue[k] = q[k]

\* A removeAt aimed at a played track, refused.
C10_Witness ==
  /\ Done("remove") /\ call.res = ERR
  /\ call.idx < call.pre.current_index
  /\ call.pre.queue[call.idx + 1] # call.pre.queue[call.idx + 2]
  /\ queue = call.pre.queue

\* The five queue-editing commands.
QueueEdits == {"append", "insertNext", "remove", "move", "clear"}

\* C11: appendToQueue, insertNext, removeAt, moveItem and clearUpcoming,
\* succeeding or failing, leave current_index, is_playing, the stored position
\* and its timestamp as they were and send nothing to the engine; a successful
\* appendToQueue keeps every item at its index and puts the new item at the
\* index that was the length.
C11_QueueEditsLeavePlayback ==
  (call.done /\ call.op \in QueueEdits) =>
    /\ current_index = call.pre.current_index
    /\ is_playing = call.pre.is_playing
    /\ position_ms = call.pre.position_ms
    /\ position_timestamp_ms = call.pre.position_timestamp_ms
    /\ call.cmds = << >>
    /\ engine = call.pre.engine
    /\ (call.op = "append" /\ call.res = OK) =>
         /\ Len(queue) = Len(call.pre.queue) + 1
         /\ \A k \in 1..Len(call.pre.queue) : queue[k] = call.pre.queue[k]
         /\ queue[Len(call.pre.queue) + 1] = call.uri

\* An append behind a different track while a track plays at a known position.
C11_Witness ==
  /\ Done("append") /\ call.res = OK
  /\ call.pre.queue # << >>
  /\ call.pre.queue[Len(call.pre.queue)] # call.uri
  /\ call.pre.is_playing
  /\ call.pre.position_ms > 0

\* C12: an EndOfTrack event handled while current_index + 1 = length leaves
\* isPlaying() false and positionMs() 0 at every clock reading, the cursor on
\* the last index, the queue as it was, and sends no load to the engine.
C12_EndOfTrackAtEnd ==
  (Done("EndOfTrack") /\ call.pre.current_index + 1 = Len(call.pre.queue)) =>
    /\ spotifly_is_playing = 0
    /\ \A now \in ClockReadings : get_position_ms(now) = 0
    /\ current_index = call.pre.current_index
    /\ queue = call.pre.queue
    /\ call.cmds = << >>
    /\ engine = call.pre.engine

\* The last of several tracks ends while it plays at a known position.
C12_Witness ==
  /\ Done("EndOfTrack")
  /\ call.pre.current_index + 1 = Len(call.pre.queue)
  /\ call.pre.current_index >= 1
  /\ call.pre.is_playing
  /\ call.pre.position_ms > 0

\* C13: an EndOfTrack event handled while current_index + 1 < length moves
\* the cursor forward by exactly 1, sends the engine exactly one load for the
\* item at the new cursor, leaves isPlaying() true and the queue as it was.
C13_EndOfTrackAdvances ==
  (Done("EndOfTrack") /\ call.pre.current_index + 1 < Len(call.pre.queue)) =>
    /\ current_index = call.pre.current_index + 1
    /\ queue = call.pre.queue
    /\ call.cmds = <<queue[current_index + 1]>>
    /\ engine = queue[current_index + 1]
    /\ spotifly_is_playing = 1

\* The advance lands on a track that differs from the one that ended.
C13_Witness ==
  /\ Done("EndOfTrack")
  /\ call.pre.current_index >= 1
  /\ call.pre.current_index + 2 < Len(call.pre.queue)
  /\ call.pre.queue[call.pre.current_index + 1] # queue[current_index + 1]

\* The reference read() of the Position Tracker at clock reading `now`.
ReferenceRead(now) ==
  IF ~is_playing \/ position_timestamp_ms = 0 THEN position_ms
  ELSE position_ms + Min(now - position_timestamp_ms, Ms(5000))

C15_PlayStateFollowsCommand ==
  /\ (Done("pause") /\ call.res = OK) => spotifly_is_playing = 0
  /\ (Done("resume") /\ call.res = OK) => spotifly_is_playing = 1
  /\ (Done("stop") /\ call.res = OK) => spotifly_is_playing = 0

\* A pause() of a playing track has returned.
C15_Witness ==
  /\ Done("pause") /\ call.res = OK
  /\ call.pre.is_playing
  /\ call.cmds = <<"pause">>

\* C16: right after a successful stop(), before the engine's Stopped event
\* is handled, the tracker holds position 0 and not playing, and positionMs()
\* returns 0 at every clock reading.
C16_StopResetsPosition ==
  (Done("stop") /\ call.res = OK) =>
    /\ position_ms = 0
    /\ ~is_playing
    /\ \A now \in ClockReadings : get_position_ms(now) = 0

\* C17: resume() records a position observation of its own: when the tracker
\* held a paused observation at a position p > 0, positionMs() read as resume()
\* returns, at any clock reading from the observation's timestamp on, is p
\* (and grows from there only with the time since the resume).
C17_ResumeKeepsPosition ==
  (/\ Done("resume") /\ call.res = OK
   /\ ~call.pre.is_playing
   /\ call.pre.position_timestamp_ms > 0
   /\ call.pre.position_ms > 0) =>
    \A now \in ClockReadings :
      now >= call.pre.position_timestamp_ms =>
        get_position_ms(now) = call.pre.position_ms

\* C18: seek(ms), succeeding or failing, leaves the stored position, the
\* stored timestamp, is_playing, the queue and the cursor as they were; a
\* successful seek only sends the seek to the engine, so the stored position
\* moves no earlier than the handling of a later event.
C18_SeekOnlyForwards ==
  Done("seek") =>
    /\ position_ms = call.pre.position_ms
    /\ position_timestamp_ms = call.pre.position_timestamp_ms
    /\ is_playing = call.pre.is_playing
    /\ queue = call.pre.queue
    /\ current_index = call.pre.current_index
    /\ engine = call.pre.engine
    /\ call.cmds = IF call.res = OK THEN <<"seek">> ELSE << >>

\* A seek to a position other than the stored one, while playing.
C18_Witness ==
  /\ Done("seek") /\ call.res = OK
  /\ call.pre.is_playing
  /\ call.pre.position_timestamp_ms > 0
  /\ call.idx # call.pre.position_ms

\* The commands that need the Session or the Streaming Engine.
NeedSession == {"play", "playMany", "pause", "resume", "stop", "seek", "next",
                "previous", "jump", "append", "insertNext"}

C20_InitializeIdempotent ==
  (Done("init") /\ call.uri # NoToken /\ call.pre.session) =>
    /\ call.res = OK
    /\ Snapshot = call.pre
    /\ loops = 1
    /\ call.cmds = << >>

\* A second initialize while a track of a longer queue plays.
C20_Witness ==
  /\ Done("init") /\ call.uri = "tokB" /\ call.pre.session
  /\ call.pre.is_playing
  /\ Len(call.pre.queue) >= 2
  /\ call.pre.position_ms > 0

\* C21: however initialize calls from several host threads interleave, there
\* is never more than one event listener task running (one Streaming Engine
\* instance whose events are written to the position statics and the cursor).
C21_SingleEpoch == loops <= 1

\* C22: an initialize that fails (session connect rejected, mixer not opened,
\* no audio backend) on a system that was never initialized leaves no session,
\* player, mixer, stop-channel sender or event listener behind, and setVolume
\* keeps failing until an initialize succeeds.
C22_InitFailureLeavesNothing ==
  /\ (Done("init") /\ call.res = ERR /\ ~call.pre.session) =>
       /\ ~session /\ ~player /\ ~mixer /\ ~event_tx
       /\ loops = 0
  /\ (Done("setVolume") /\ ~call.pre.session) => call.res = ERR

C23_WitnessStopped ==
  /\ Done("Cancelled") /\ teardowns = 1 /\ loops = 0 /\ ~session

\* A second teardown in a row.
C23_WitnessAgain ==
  /\ Done("teardown") /\ teardowns = 2 /\ ~call.pre.session /\ call.pre.cancelled = 1

\* play after a teardown.
C23_WitnessPlay ==
  /\ Done("play") /\ teardowns > 0 /\ ~call.pre.session /\ call.pre.queue # << >>

\* C24: a playMany that fails (and it fails whenever the list is empty or
\* holds an identifier that does not parse or is no track, and whenever a
\* lookup fails) returns failure with the queue, the cursor and the engine as
\* they were, and sends no load.
C24_PlayManyAtomic ==
  (/\ Done("playMany")
   /\ \/ call.res = ERR
      \/ call.items = << >>
      \/ \E k \in 1..Len(call.items) : UriKind(call.items[k]) # "track") =>
    /\ call.res = ERR
    /\ queue = call.pre.queue
    /\ current_index = call.pre.current_index
    /\ call.cmds = << >>
    /\ engine = call.pre.engine

\* A list whose second identifier does not parse, given to a live session
\* with a queue.
C24_Witness ==
  /\ Done("playMany") /\ call.items = <<"t2", "bad">>
  /\ call.pre.session /\ call.pre.player
  /\ Len(call.pre.queue) > 1 /\ call.pre.current_index > 0

\* A list of tracks of which one could not be looked up.
C24_WitnessLookup ==
  /\ Done("playMany") /\ call.items = <<"t2", "t1">> /\ call.res = ERR
  /\ call.pre.session /\ call.pre.player
  /\ call.pre.queue # << >>

\* The tracks of a collection: what load_album, load_playlist and load_artist
\* return when every Track::get succeeds.
AllTracksOf(content) == load_collection(content, Tracks)

\* C25: a play of an album, playlist or artist changes the queue only to the
\* complete list of the collection's tracks; when the lookup of one of them
\* fails, the queue and the cursor stay as they were.
C25_CollectionAllOrNothing ==
  (Done("play") /\ UriKind(call.uri) \in {"album", "playlist", "artist"}) =>
    \/ /\ call.res = OK
       /\ queue \in {AllTracksOf(c) : c \in Contents}
    \/ /\ call.res = ERR
       /\ queue = call.pre.queue
       /\ current_index = call.pre.current_index

\* C26: a play that fails (and it fails for every identifier that does not
\* parse or is of a kind without queue semantics) returns failure with the
\* queue, the cursor, is_playing and the engine as they were and sends no
\* load; a play that returns success has committed a queue that is not empty
\* and has sent the load of its first item.
C26_PlayNeverSilent ==
  /\ (/\ Done("play")
      /\ \/ call.res = ERR
         \/ UriKind(call.uri) \notin {"track", "album", "playlist", "artist"}) =>
       /\ call.res = ERR
       /\ queue = call.pre.queue
       /\ current_index = call.pre.current_index
       /\ is_playing = call.pre.is_playing
       /\ call.cmds = << >>
       /\ engine = call.pre.engine
  /\ (Done("play") /\ call.res = OK) =>
       /\ queue # << >>
       /\ call.cmds = <<queue[1]>>

\* play of a user profile while a queue is playing.
C26_Witness ==
  /\ Done("play") /\ UriKind(call.uri) = "other"
  /\ call.pre.session /\ call.pre.player
  /\ call.pre.queue # << >> /\ call.pre.is_playing

\* play of a collection that fails on a live session: its lookup failed or it
\* holds no track that resolved.
C26_WitnessCollection ==
  /\ Done("play") /\ call.uri = "playlist" /\ call.res = ERR
  /\ call.pre.session /\ call.pre.player
  /\ call.pre.queue # << >> /\ call.pre.current_index > 0

\* play of an identifier that does not parse.
C26_WitnessInvalid ==
  /\ Done("play") /\ UriKind(call.uri) = "invalid"
  /\ call.pre.session /\ call.pre.is_playing

\* C27: setBitrate and setGapless change what getBitrate and getGapless
\* return (the level clamped to 2) and leave the configuration of the engine
\* that is open as it was; an initialize that opens a session gives its
\* engine the configuration the settings select at that moment; a call that
\* finds a session live leaves the configuration alone.
C27_SettingsReadAtInit ==
  /\ Done("setBitrate") =>
       /\ spotifly_get_bitrate = Min(call.idx, MaxBitrateSetting)
       /\ spotifly_get_gapless = call.pre.gapless_setting
       /\ player_config = call.pre.player_config
  /\ Done("setGapless") =>
       /\ spotifly_get_gapless = (call.idx = 1)
       /\ spotifly_get_bitrate = call.pre.bitrate_setting
       /\ player_config = call.pre.player_config
  /\ (Done("init") /\ call.res = OK) =>
       player_config =
         IF call.pre.session THEN call.pre.player_config
         ELSE [bitrate |-> Bitrate(call.pre.bitrate_setting),
               gapless |-> call.pre.gapless_setting]
  /\ (Done("init") /\ call.res = ERR) => player_config = call.pre.player_config

\* setBitrate on a live session, whose engine keeps another bitrate than the
\* setting now selects.
C27_Witness ==
  /\ Done("setBitrate") /\ call.pre.session /\ call.pre.player
  /\ player_config # NoConfig
  /\ player_config.bitrate # Bitrate(bitrate_setting)

\* setGapless(false) on a live session opened with gapless playback.
C27_WitnessGapless ==
  /\ Done("setGapless") /\ call.pre.session
  /\ player_config # NoConfig /\ player_config.gapless /\ ~gapless_setting

\* A second session, opened after the settings were changed during the first.
C27_WitnessNextInit ==
  /\ Done("init") /\ call.res = OK /\ ~call.pre.session /\ teardowns = 1
  /\ player_config = [bitrate |-> 320, gapless |-> FALSE]

\* The web form of the claim: https://open.spotify.com/, at most one locale
\* segment, a kind, an id and perhaps a query.
WebKinds == {"track"}
WebIds == {"id"}
WebForm(kind, id) ==
  {<<"https://", Marker>> \o locale \o <<kind, "/", id>> \o query :
     locale \in {<< >>, <<"intl-de", "/">>}, query \in {<< >>, <<"?", "si">>}}

\* The path of a URL on the host open.spotify.com, without the locale segment
\* that may lead it.
PathAfterHost(input) ==
  LET path == SubSeq(input, 3, Len(input))
  IN IF Len(path) >= 2 /\ path[1] \in Locales /\ path[2] = "/"
       THEN SubSeq(path, 3, Len(path))
       ELSE path

\* The inputs the claim calls unrecognized: no URL, a URL of another host, and
\* a URL of the host with fewer than two path segments.
Unrecognized(input) ==
  \/ ~starts_with(input, {"http://", "https://"})
  \/ Len(input) < 2
  \/ input[2] # Marker
  \/ find(PathAfterHost(input), "/") = 0

C29_AdvanceSerialized ==
  \A t \in HostThreads :
    ~(/\ pc[t] = "next_store"
      /\ loop.pc = "eot_store"
      /\ lcl[t].idx = loop.idx
      /\ lcl[t].trk = loop.trk)

\* What the listener reports of itself.
ListenerOps == {"Playing", "Paused", "Stopped", "PositionChanged", "Seeked", "EndOfTrack",
                "Cancelled", "StreamEnded"}

\* C30: a listener leaves its loop only by taking the stop signal or at the
\* end of the event stream; with no listener running no event is handled;
\* and whenever the stop channel of a running listener is ready, that
\* listener eventually stops, whether or not the engine emits events.
C30_LoopStops ==
  /\ [][/\ loops' < loops => call'.op \in {"Cancelled", "StreamEnded"}
        /\ loops = 0 => /\ loop' = loop
                        /\ call' # call => call'.op \notin ListenerOps]_vars
  /\ (cancelled > 0) ~> (cancelled = 0)

\* A listener stops on its signal while a later session's listener keeps
\* handling the engine's events.
C30_Witness ==
  /\ Done("Cancelled") /\ call.pre.cancelled = 1 /\ call.pre.loops = 2
  /\ engine # NONE

\* C31: Playing(pos) leaves the stored position at pos and is_playing true,
\* Paused(pos) at pos and false, Stopped at 0 and false; PositionChanged(pos)
\* and Seeked(pos) store pos and leave is_playing as it was; each of them
\* stamps the position with the clock reading taken while it is handled, and
\* none changes the queue or the cursor or sends the engine a command.
C31_EventTable ==
  /\ Done("Playing") => position_ms = call.idx /\ is_playing
  /\ Done("Paused") => position_ms = call.idx /\ ~is_playing
  /\ Done("Stopped") => position_ms = 0 /\ ~is_playing
  /\ (Done("PositionChanged") \/ Done("Seeked")) =>
       position_ms = call.idx /\ is_playing = call.pre.is_playing
  /\ (call.done /\ call.op \in {"Playing", "Paused", "Stopped", "PositionChanged",
                                "Seeked"}) =>
       /\ position_timestamp_ms = call.idx2
       /\ queue = call.pre.queue
       /\ current_index = call.pre.current_index
       /\ call.cmds = << >>
       /\ engine = call.pre.engine

\* Seeked(1000 ms) while a track plays from a stored position 0, stamped
\* with a later clock reading than the stored one.
C31_Witness ==
  /\ Done("Seeked") /\ call.idx = Ms(1000)
  /\ call.pre.is_playing /\ call.pre.position_ms = 0
  /\ call.idx2 > call.pre.position_timestamp_ms /\ call.pre.position_timestamp_ms > 0

\* Stopped while a track plays at a stored position above 0.
C31_WitnessStopped ==
  /\ Done("Stopped") /\ call.pre.is_playing /\ call.pre.position_ms > 0
  /\ call.pre.queue # << >>

\* Paused(pos) and Playing(pos) with a position above 0.
C31_WitnessPaused ==
  /\ Done("Paused") /\ call.idx > 0 /\ call.pre.is_playing
C31_WitnessPlaying ==
  /\ Done("Playing") /\ call.idx > 0 /\ ~call.pre.is_playing /\ call.pre.position_ms = 0

\* A thread can take its next step: it is not inside a call, or its next
\* operation is not a lock() of a mutex that is held.
CanStep(t) ==
  \/ script[t] = << >>
  \/ Head(script[t])[1] # "lock"
  \/ holder[Head(script[t])[2]] = NONE

\* C32: no thread holds a lock while it takes another (so no thread ever
\* holds two), the listener holds no lock when it gives the engine the load,
\* and there is no deadlock: a thread that waits for a lock waits for a
\* holder that can take its next step.
C32_LocksSingly ==
  /\ \A t \in LockThreads :
       /\ Cardinality(Holds(t)) <= 1
       /\ (script[t] # << >> /\ Head(script[t])[1] = "lock") => Holds(t) = {}
       /\ ~CanStep(t) => CanStep(holder[Head(script[t])[2]])
  /\ (script["listener"] # << >> /\ Head(script["listener"]) = EngineCommand) =>
       Holds("listener") = {}

\* The listener is about to load the next track, having dropped the queue
\* guard, while one host thread waits for the PLAYER lock another one holds.
C32_Witness ==
  /\ script["listener"] = <<EngineCommand>>
  /\ \E t, u \in HostThreads :
       /\ script[t] # << >> /\ Head(script[t]) = Acq("PLAYER")
       /\ holder["PLAYER"] = u

\* C33: when next, previous, jumpToIndex or the listener's auto-advance has
\* stored its cursor and is about to hand its track to the engine, with no
\* other navigation under way, that track is the item at queue[current_index].
C33_LoadsItemAtCursor ==
  /\ \A t \in HostThreads :
       (/\ pc[t] = "nav_load"
        /\ loop.pc = "wait"
        /\ \A u \in HostThreads \ {t} : pc[u] = "idle") =>
         /\ current_index < Len(queue)
         /\ queue[current_index + 1] = lcl[t].trk
  /\ (loop.pc = "eot_load" /\ \A u \in HostThreads : pc[u] = "idle") =>
       /\ current_index < Len(queue)
       /\ queue[current_index + 1] = loop.trk

\* C34: no command and no handler panics on a queue index outside
\* [0, length), whatever the interleaving.
C34_NoIndexPanic == ~crashed

\* C35: when play, playMany, next, previous or jumpToIndex returns success,
\* isPlaying() reads true.
C35_PlayingAfterLoad ==
  (call.done /\ call.res = OK
   /\ call.op \in {"play", "playMany", "next", "previous", "jump"}) =>
    spotifly_is_playing = 1

C37_PositionNeverWraps ==
  (Done("positionMs") /\ is_playing) =>
    /\ position_ms <= call.res
    /\ call.res <= Min(position_ms + InterpolationCapMs, U32Max)
    /\ call.idx <= position_timestamp_ms => call.res = position_ms

====
